---- MODULE Spec2Model ----
(***************************************************************************)
(* EBML decoder of pixelbender/go-matroska: the element cursor (Decoder), *)
(* its vint codec and primitive readers, and the reflection-driven        *)
(* decoder loop (typeCodec.UnmarshalEBML, fieldInfo.Decode).              *)
(*                                                                         *)
(* One input stream is decoded by three decoders at once, one per kind of *)
(* source NewDecoder distinguishes; every call is applied to all three,   *)
(* so a state holds what each source kind makes of the same calls on the  *)
(* same bytes.                                                             *)
(***************************************************************************)
EXTENDS Integers, Sequences, FiniteSets, TLC

\* ------------------------------------------------------------------ bounds
\* longest input stream of the exhaustive part of the input set
MaxLen == 4
\* largest buffer length handed to Read
MaxRead == 2
\* bytes the buffered reader fetches from the source per refill
BufSize == 2
\* the largest number the sizes and ids read are told apart up to
MaxInt == 1073741824

\* byte values the exhaustive input streams are built from: element ids and
\* one-byte sizes 0..2 (0x80..0x82) and the lead byte of a two-byte vint (0x40)
Alphabet == {64, 128, 129, 130}

\* ------------------------------------------------------- program constants
mask == <<128, 64, 32, 16, 8, 4, 2, 1>>
rest == <<255, 127, 63, 31, 15, 7, 3, 1, 0>>
maxBufferSize == 1048576

\* the kinds of source NewDecoder tells apart: an *os.File (seekable, size
\* known), another io.ReadSeeker, and a forward-only io.Reader
Kinds == {"file", "seeker", "reader"}

\* error values: nil, io.EOF, ErrFormat, and a run-time panic
ErrNil == "nil"
ErrEOF == "EOF"
ErrFormat == "ErrFormat"
ErrPanic == "panic"
\* errors.New("ebml: unsupported ...") of fieldInfo.decode
ErrUnsupported == "unsupported"

VARIABLES
    stream,   \* the bytes of the underlying source
    run,      \* run[k]: the Decoder objects and reader position for source kind k
    dstate,   \* dstate[k]: the Decode call in progress on run k
    proc      \* the package variable prefix, and where each goroutine stands
              \* in its prefix++ or prefix--
vars == <<stream, run, dstate, proc>>

\* ------------------------------------------------------------------ helpers
Min(a, b) == IF a < b THEN a ELSE b
Max(a, b) == IF a > b THEN a ELSE b

\* e is evaluated once and F applied to its value
Then(e, F(_)) == CHOOSE r \in {F(x) : x \in {e}} : TRUE

\* bit i of the byte a
Bit(a, i) == (a \div 2 ^ i) % 2

\* a & b on two bytes
BitAnd(a, b) ==
    Bit(a, 0) * Bit(b, 0) + 2 * Bit(a, 1) * Bit(b, 1) + 4 * Bit(a, 2) * Bit(b, 2)
    + 8 * Bit(a, 3) * Bit(b, 3) + 16 * Bit(a, 4) * Bit(b, 4) + 32 * Bit(a, 5) * Bit(b, 5)
    + 64 * Bit(a, 6) * Bit(b, 6) + 128 * Bit(a, 7) * Bit(b, 7)

\* all sequences over S of length at most n
RECURSIVE SeqsUpTo(_, _)
SeqsUpTo(S, n) ==
    IF n = 0 THEN {<<>>}
    ELSE LET P == SeqsUpTo(S, n - 1)
         IN P \cup {Append(p, x) : p \in {q \in P : Len(q) = n - 1}, x \in S}

\* ------------------------------------------------------- bufio.Reader model
\* d.pos bytes have been consumed; the source itself has been read (or sought)
\* up to d.upos; the bytes between the two are buffered.
StreamLen == Len(stream)
Avail(d) == IF d.pos >= StreamLen THEN 0 ELSE StreamLen - d.pos
Buffered(d) == d.upos - d.pos

\* refill in BufSize chunks until target is buffered or the source is exhausted
RECURSIVE FillTo(_, _)
FillTo(u, target) ==
    IF u >= target \/ u >= StreamLen THEN u
    ELSE FillTo(Min(u + BufSize, StreamLen), target)

\* buf.ReadByte
bufReadByte(d) ==
    IF Avail(d) = 0
    THEN [d |-> d, b |-> 0, err |-> ErrEOF]
    ELSE [d |-> [d EXCEPT !.pos = @ + 1, !.upos = FillTo(@, d.pos + 1)],
          b |-> stream[d.pos + 1], err |-> ErrNil]

\* buf.Peek(n): consumes nothing; io.EOF when fewer than n bytes are left
bufPeek(d, n) ==
    IF Avail(d) < n
    THEN [d |-> [d EXCEPT !.upos = FillTo(@, StreamLen)], b |-> <<>>, err |-> ErrEOF]
    ELSE [d |-> [d EXCEPT !.upos = FillTo(@, d.pos + n)],
          b |-> SubSeq(stream, d.pos + 1, d.pos + n), err |-> ErrNil]

\* buf.Discard(n): drops what there is; io.EOF when fewer than n bytes are left
bufDiscard(d, n) ==
    IF Avail(d) < n
    THEN [d |-> [d EXCEPT !.pos = @ + Avail(d), !.upos = FillTo(@, StreamLen)],
          n |-> Avail(d), err |-> ErrEOF]
    ELSE [d |-> [d EXCEPT !.pos = @ + n, !.upos = FillTo(@, d.pos + n)],
          n |-> n, err |-> ErrNil]

\* rs.Seek(off, 1) followed by buf.Reset(rs): the buffer is dropped and the
\* source stands off bytes further, also beyond its end
seekReset(d, off) ==
    [d EXCEPT !.pos = d.upos + off, !.upos = d.upos + off]

\* ------------------------------------------------------------------ Decoder
\* A Decoder object is cur[i] = [len, size, id, elem]; elem is the index of
\* the child last returned by Next, 0 for nil.  cur[1] is the root.  Two
\* fields the program does not keep are recorded to state properties with:
\* at, the stream offset at which the element's payload starts, and up, the
\* Decoder whose Next returned this one.
NilElem == 0

Decoder(len, size, id, at, up) ==
    [len |-> len, size |-> size, id |-> id, elem |-> NilElem, at |-> at, up |-> up]

HasSeeker(k) == k \in {"file", "seeker"}

NewDecoder(k) ==
    LET size == IF k = "file" THEN StreamLen ELSE 0
    IN [cur |-> <<Decoder(size, size, 0, 0, 0)>>, pos |-> 0, upos |-> 0,
        rs |-> HasSeeker(k), crashed |-> FALSE]

SkipRes(d, err, path) == [d |-> d, err |-> err, path |-> path]

\* Skip once the open child is skipped: the rest of this element goes by Seek
\* when the source can seek and more than the buffered bytes are to go, by
\* Discard otherwise.  path records which branch cursor c itself took.
SkipDiscard(x, c) ==
    IF x.err # ErrNil THEN SkipRes(x.d, x.err, "discard")
    ELSE SkipRes([x.d EXCEPT !.cur[c].len = 0], ErrNil, "discard")

SkipOwn(r, c) ==
    IF r.err # ErrNil THEN SkipRes(r.d, r.err, "none")
    ELSE IF r.d.cur[c].len <= 0 THEN SkipRes(r.d, ErrNil, "none")
    ELSE IF r.d.rs /\ r.d.cur[c].len > Buffered(r.d)
    THEN SkipRes([seekReset(r.d, r.d.cur[c].len - Buffered(r.d)) EXCEPT !.cur[c].len = 0],
                 ErrNil, "seek")
    ELSE Then(bufDiscard(r.d, r.d.cur[c].len), LAMBDA x : SkipDiscard(x, c))

\* Decoder.Skip: skips the open child first, then the rest of this element
RECURSIVE Skip(_, _)
Skip(d, c) ==
    Then(IF d.cur[c].elem # NilElem THEN Skip(d, d.cur[c].elem)
         ELSE SkipRes(d, ErrNil, "none"),
         LAMBDA r : SkipOwn(r, c))

\* skip that drops the error of the child's Skip
skipDroppingError(d, c) ==
    IF d.cur[c].elem # NilElem
    THEN Then(Skip(d, d.cur[c].elem), LAMBDA r : [d |-> r.d, err |-> ErrNil])
    ELSE [d |-> d, err |-> ErrNil]

\* Decoder.skip: the implicit skip of the child last returned
skip(d, c) ==
    IF d.cur[c].elem # NilElem
    THEN Then(Skip(d, d.cur[c].elem), LAMBDA r : [d |-> r.d, err |-> r.err])
    ELSE [d |-> d, err |-> ErrNil]

\* the int64 register of (v << 8) | it as its eight bytes, most significant
\* first
RECURSIVE ShiftIn(_, _)
ShiftIn(reg, b) ==
    IF b = <<>> THEN reg ELSE ShiftIn(Tail(reg) \o <<Head(b)>>, Tail(b))

Int64Zero == <<0, 0, 0, 0, 0, 0, 0, 0>>

\* the number a sequence of bytes holds, big-endian; numbers from MaxInt on
\* are all kept as MaxInt
RECURSIVE BigEndian(_, _)
BigEndian(v, b) ==
    IF b = <<>> THEN v
    ELSE Then(IF v >= MaxInt \div 256 THEN MaxInt ELSE v * 256 + Head(b),
              LAMBDA w : BigEndian(w, Tail(b)))

\* the number in a register that readVint filled, which is never negative
Int64(reg) == BigEndian(0, reg)

\* the index at which `for n, bit = range mask` stops: the first set bit of
\* m, or the last index when the loop runs out without a break
markerIndex(m) ==
    IF \E i \in 0..7 : BitAnd(m, mask[i + 1]) # 0
    THEN CHOOSE i \in 0..7 : /\ BitAnd(m, mask[i + 1]) # 0
                             /\ \A j \in 0..(i - 1) : BitAnd(m, mask[j + 1]) = 0
    ELSE 7

\* the marker cleared whatever the kind of vint: rest[n+1] for an id too
markerValueCleared(m, off) ==
    IF m = 0 THEN 0 ELSE BitAnd(m, rest[markerIndex(m) + 2])

\* v = int64(m & rest[n+off]), assigned only when a set bit was found
markerValue(m, off) ==
    IF m = 0 THEN 0 ELSE BitAnd(m, rest[markerIndex(m) + off + 1])

\* what readVint returns; v is the int64 as its register
Vint(d, v, n, err) == [d |-> d, v |-> v, n |-> n, err |-> err]

\* readVint, the n bytes after the lead byte: Peek, combine, Discard
readVintTail(pk, c, v, n) ==
    IF pk.err # ErrNil THEN Vint(pk.d, v, n, pk.err)
    ELSE Vint([bufDiscard(pk.d, n).d EXCEPT !.cur[c].len = @ - n],
              ShiftIn(v, pk.b), n, ErrNil)

\* readVint after dec.len--, with n and v from the marker scan: the bound
\* check on the n bytes to follow
readVintRest(d1, c, v, n) ==
    IF n = 0 THEN Vint(d1, v, n, ErrNil)
    ELSE IF d1.cur[c].len < n /\ 0 < d1.cur[c].size THEN Vint(d1, v, n, ErrEOF)
    ELSE Then(bufPeek(d1, n), LAMBDA pk : readVintTail(pk, c, v, n))

\* readVint from the lead byte on: dec.len--, the marker scan
readVintLead(rb, c, off) ==
    IF rb.err # ErrNil THEN Vint(rb.d, Int64Zero, 0, rb.err)
    ELSE Then(<<ShiftIn(Int64Zero, <<markerValue(rb.b, off)>>), markerIndex(rb.b)>>,
              LAMBDA x : readVintRest([rb.d EXCEPT !.cur[c].len = @ - 1], c, x[1], x[2]))

\* readVint that reads the lead byte whatever the remaining count
readVintSkippedUnbounded(s, c, off) ==
    IF s.err # ErrNil THEN Vint(s.d, Int64Zero, 0, s.err)
    ELSE Then(bufReadByte(s.d), LAMBDA rb : readVintLead(rb, c, off))

\* readVint after its implicit skip
readVintSkipped(s, c, off) ==
    IF s.err # ErrNil THEN Vint(s.d, Int64Zero, 0, s.err)
    ELSE IF s.d.cur[c].len < 1 /\ 0 < s.d.cur[c].size THEN Vint(s.d, Int64Zero, 0, ErrEOF)
    ELSE Then(bufReadByte(s.d), LAMBDA rb : readVintLead(rb, c, off))

\* Decoder.readVint(off): off = 0 for an id, 1 for a size
readVint(d, c, off) == Then(skip(d, c), LAMBDA s : readVintSkipped(s, c, off))

\* What Next returns: hdr tells that both vints were decoded, hsize is the
\* declared size and hlen the remaining count right after the header.
NextRes(d, err, id, child, hdr, hsize, hlen) ==
    [d |-> d, err |-> err, id |-> id, child |-> child, hdr |-> hdr,
     hsize |-> hsize, hlen |-> hlen]

\* a child returned without dec.len -= size
openChildKeepLen(d, c, id, size) ==
    [d EXCEPT !.cur = Append([@ EXCEPT ![c].elem = Len(d.cur) + 1],
                             Decoder(size, size, id, d.pos, c))]

\* dec.len -= size; v = &Decoder{...}; dec.elem = v
openChild(d, c, id, size) ==
    [d EXCEPT !.cur = Append([@ EXCEPT ![c].len = @ - size, ![c].elem = Len(d.cur) + 1],
                             Decoder(size, size, id, d.pos, c))]

\* Next without its check of the id
NextCheckedAnyId(d, c, id, size) ==
    IF size < 0
    THEN NextRes(d, ErrFormat, id, NilElem, TRUE, size, d.cur[c].len)
    ELSE IF d.cur[c].size < size /\ 0 < d.cur[c].size
    THEN NextRes(d, ErrFormat, id, NilElem, TRUE, size, d.cur[c].len)
    ELSE IF size = 0
    THEN NextRes(d, ErrNil, id, NilElem, TRUE, size, d.cur[c].len)
    ELSE NextRes(openChild(d, c, id, size), ErrNil, id, Len(d.cur) + 1, TRUE, size,
                 d.cur[c].len)

\* Next that returns a Decoder for an element of size zero too
NextCheckedOpensEmpty(d, c, id, size) ==
    IF id = 0 \/ size < 0
    THEN NextRes(d, ErrFormat, id, NilElem, TRUE, size, d.cur[c].len)
    ELSE IF d.cur[c].size < size /\ 0 < d.cur[c].size
    THEN NextRes(d, ErrFormat, id, NilElem, TRUE, size, d.cur[c].len)
    ELSE NextRes(openChild(d, c, id, size), ErrNil, id, Len(d.cur) + 1, TRUE, size,
                 d.cur[c].len)

\* Next once the header is decoded: the checks on id and size
NextChecked(d, c, id, size) ==
    IF id = 0 \/ size < 0
    THEN NextRes(d, ErrFormat, id, NilElem, TRUE, size, d.cur[c].len)
    ELSE IF d.cur[c].size < size /\ 0 < d.cur[c].size
    THEN NextRes(d, ErrFormat, id, NilElem, TRUE, size, d.cur[c].len)
    ELSE IF size = 0
    THEN NextRes(d, ErrNil, id, NilElem, TRUE, size, d.cur[c].len)
    ELSE NextRes(openChild(d, c, id, size), ErrNil, id, Len(d.cur) + 1, TRUE, size,
                 d.cur[c].len)

NextSize(rz, c, id) ==
    IF rz.err # ErrNil THEN NextRes(rz.d, rz.err, id, NilElem, FALSE, 0, 0)
    ELSE Then(Int64(rz.v), LAMBDA size : NextChecked(rz.d, c, id, size))

NextId(ri, c) ==
    IF ri.err # ErrNil THEN NextRes(ri.d, ri.err, Int64(ri.v), NilElem, FALSE, 0, 0)
    ELSE Then(<<readVint(ri.d, c, 1), Int64(ri.v)>>,
              LAMBDA x : NextSize(x[1], c, x[2]))

NextSkipped(s, c) ==
    IF s.err # ErrNil THEN NextRes(s.d, s.err, 0, NilElem, FALSE, 0, 0)
    ELSE Then(readVint(s.d, c, 0), LAMBDA ri : NextId(ri, c))

\* Decoder.Next: the header of the next element and, unless it is empty, a
\* new Decoder for its payload
Next(d, c) == Then(skip(d, c), LAMBDA s : NextSkipped(s, c))

ReadRes(d, n, b, err) == [d |-> d, n |-> n, b |-> b, err |-> err]

\* the read loop of Read over want bytes: what there is, io.EOF when short
ReadLoop(d, c, want) ==
    LET x == bufDiscard(d, want)
    IN ReadRes([x.d EXCEPT !.cur[c].len = @ - x.n], x.n,
               SubSeq(stream, d.pos + 1, d.pos + x.n), x.err)

ReadSkipped(s, c, m) ==
    IF s.err # ErrNil THEN ReadRes(s.d, 0, <<>>, s.err)
    ELSE IF s.d.cur[c].len < m /\ 0 < s.d.cur[c].size
    THEN IF s.d.cur[c].len < 0
         THEN ReadRes([s.d EXCEPT !.crashed = TRUE], 0, <<>>, ErrPanic)
         ELSE ReadLoop(s.d, c, s.d.cur[c].len)
    ELSE ReadLoop(s.d, c, m)

\* Decoder.Read(b) with len(b) = m.  A negative remaining count makes the
\* slice expression b[:dec.len] panic.
Read(d, c, m) == Then(skip(d, c), LAMBDA s : ReadSkipped(s, c, m))

ValRes(d, v, err) == [d |-> d, v |-> v, err |-> err]

\* ReadInt that leaves dec.len as it was
ReadIntPeekedKeepLen(pk, c, n) ==
    IF pk.err # ErrNil THEN ValRes(pk.d, Int64Zero, pk.err)
    ELSE ValRes(bufDiscard(pk.d, n).d, ShiftIn(Int64Zero, pk.b), ErrNil)

ReadIntPeeked(pk, c, n) ==
    IF pk.err # ErrNil THEN ValRes(pk.d, Int64Zero, pk.err)
    ELSE ValRes([bufDiscard(pk.d, n).d EXCEPT !.cur[c].len = 0],
                ShiftIn(Int64Zero, pk.b), ErrNil)

\* ReadInt that takes a payload of any length above zero
ReadIntSkippedAnyWidth(s, c) ==
    IF s.err # ErrNil THEN ValRes(s.d, Int64Zero, s.err)
    ELSE IF s.d.cur[c].len < 1
    THEN ValRes(s.d, Int64Zero, ErrFormat)
    ELSE ReadIntPeeked(bufPeek(s.d, s.d.cur[c].len), c, s.d.cur[c].len)

ReadIntSkipped(s, c) ==
    IF s.err # ErrNil THEN ValRes(s.d, Int64Zero, s.err)
    ELSE IF s.d.cur[c].len < 1 \/ s.d.cur[c].len > 8
    THEN ValRes(s.d, Int64Zero, ErrFormat)
    ELSE ReadIntPeeked(bufPeek(s.d, s.d.cur[c].len), c, s.d.cur[c].len)

\* Decoder.ReadInt
ReadInt(d, c) == Then(skip(d, c), LAMBDA s : ReadIntSkipped(s, c))

ReadFloatPeeked(pk, c, n) ==
    IF pk.err # ErrNil THEN ValRes(pk.d, <<>>, pk.err)
    ELSE ValRes([bufDiscard(pk.d, n).d EXCEPT !.cur[c].len = 0], pk.b, ErrNil)

ReadFloatSkipped(s, c) ==
    IF s.err # ErrNil THEN ValRes(s.d, <<>>, s.err)
    ELSE IF s.d.cur[c].len \notin {4, 8} THEN ValRes(s.d, <<>>, ErrFormat)
    ELSE ReadFloatPeeked(bufPeek(s.d, s.d.cur[c].len), c, s.d.cur[c].len)

\* Decoder.ReadFloat: the value is kept as the IEEE-754 bit pattern read,
\* four bytes for a float32 and eight for a float64
ReadFloat(d, c) == Then(skip(d, c), LAMBDA s : ReadFloatSkipped(s, c))

ReadBytesRead(r) ==
    ValRes(r.d, IF r.err = ErrNil THEN r.b ELSE <<>>, r.err)

\* ReadBytes whose guard refuses a length of maxBufferSize itself
ReadBytesSkippedBelow(s, c) ==
    IF s.err # ErrNil THEN ValRes(s.d, <<>>, s.err)
    ELSE IF s.d.cur[c].len < 0 \/ maxBufferSize <= s.d.cur[c].len
    THEN ValRes(s.d, <<>>, ErrFormat)
    ELSE Then(Read(s.d, c, s.d.cur[c].len), LAMBDA r : ReadBytesRead(r))

ReadBytesSkipped(s, c) ==
    IF s.err # ErrNil THEN ValRes(s.d, <<>>, s.err)
    ELSE IF s.d.cur[c].len < 0 \/ maxBufferSize < s.d.cur[c].len
    THEN ValRes(s.d, <<>>, ErrFormat)
    ELSE Then(Read(s.d, c, s.d.cur[c].len), LAMBDA r : ReadBytesRead(r))

\* Decoder.ReadBytes
ReadBytes(d, c) == Then(skip(d, c), LAMBDA s : ReadBytesSkipped(s, c))

\* Decoder.ReadBool: v != 0
ReadBool(d, c) ==
    Then(ReadInt(d, c),
         LAMBDA r : ValRes(r.d, IF r.err = ErrNil THEN r.v # Int64Zero ELSE FALSE, r.err))

\* Decoder.ReadTime: absTime plus v nanoseconds, kept as that offset
ReadTime(d, c) == ReadInt(d, c)

\* Decoder.ReadString: the bytes of ReadBytes as a string
ReadString(d, c) == ReadBytes(d, c)

\* Decoder.Size of decoder.go: the implicit skip, its error dropped, then
\* dec.len
Size(d, c) == Then(skip(d, c), LAMBDA s : [d |-> s.d, v |-> s.d.cur[c].len])

\* ------------------------------------------------------ the target of Decode
\* Go types as reflect sees them
TKind(k) == [kind |-> k]
TStruct(n) == [kind |-> "struct", name |-> n]
TPtr(e) == [kind |-> "ptr", elem |-> e]
TSlice(e) == [kind |-> "slice", elem |-> e]

\* The tagged struct types decoded into, after the pattern of File and EBML:
\*   type Doc struct { Head  *Hdr   `ebml:"81"`
\*                     Count int    `ebml:"82"`
\*                     Items []*Hdr `ebml:"80>81"` }
\*   type Hdr struct { Version int `ebml:"81"`; ReadVersion int `ebml:"82"` }
\* Each field is [id, seq, type], as newStructInfo splits its tag.
Tagged(id, seq, type) == [id |-> id, seq |-> seq, type |-> type]

StructFields(name) ==
    CASE name = "Doc" -> << Tagged(129, <<>>, TPtr(TStruct("Hdr"))),
                            Tagged(130, <<>>, TKind("int")),
                            Tagged(128, <<129>>, TSlice(TPtr(TStruct("Hdr")))) >>
      [] name = "Hdr" -> << Tagged(129, <<>>, TKind("int")),
                            Tagged(130, <<>>, TKind("int")) >>

\* newStructInfo: c.ids[it.id] = it, a later field with the same id replacing
\* an earlier one; 0 when no field has the id
newStructInfo(name, id) ==
    LET F == StructFields(name)
        I == {i \in 1..Len(F) : F[i].id = id}
    IN IF I = {} THEN 0 ELSE CHOOSE i \in I : \A j \in I : j <= i

\* A value is kept as a sequence: a struct as its fields in order, a pointer
\* as <<>> (nil) or <<pointee>>, a slice as its items, an integer as the
\* eight bytes of its register.  A reflect.Value is a path into the target.
RECURSIVE Zero(_)
Zero(t) ==
    IF t.kind = "struct"
    THEN [i \in 1..Len(StructFields(t.name)) |-> Zero(StructFields(t.name)[i].type)]
    ELSE IF t.kind \in {"ptr", "slice", "string", "float"} THEN <<>>
    ELSE IF t.kind = "bool" THEN FALSE
    ELSE Int64Zero

RECURSIVE At(_, _)
At(v, path) == IF path = <<>> THEN v ELSE At(v[Head(path)], Tail(path))

RECURSIVE SetAt(_, _, _)
SetAt(v, path, x) ==
    IF path = <<>> THEN x ELSE [v EXCEPT ![Head(path)] = SetAt(@, Tail(path), x)]

\* --------------------------------------------------------- the Decode call
\* dstate[k] = [pc, stack, tree, err, from, stop]: the stack holds one frame
\* per active UnmarshalEBML or decodeSeq loop, tree is the target value, err
\* what Decode returned.  from logs each assignment of a decoded value, with
\* the Decoder it was read from; stop logs each loop that ended on io.EOF,
\* with the remaining count of its Decoder at that moment; prev holds what
\* the Decode call before this one returned, when there was one; built logs
\* each call of newStructInfo, with the struct type whose shape it built.
Frame(fn, dec, path, type, seq) ==
    [fn |-> fn, dec |-> dec, path |-> path, type |-> type, seq |-> seq]

NoDecode ==
    [pc |-> "idle", stack |-> <<>>, tree |-> Zero(TStruct("Doc")), err |-> ErrNil,
     from |-> <<>>, stop |-> <<>>, prev |-> <<>>, built |-> <<>>]

\* a machine state m = [d, s] pairs the Decoders with the Decode call
Fail(m, d, e) == [d |-> d, s |-> [m.s EXCEPT !.pc = "done", !.err = e, !.stack = <<>>]]

\* var typeMap = make(map[reflect.Type]*structInfo): no statement stores
\* into it or looks anything up in it
typeMap == {}

\* a call of f.fn; UnmarshalEBML begins with newStructInfo(c.v.Type())
Push(m, f) ==
    [m EXCEPT !.s.stack = Append(@, f),
              !.s.built = IF f.fn = "UnmarshalEBML" THEN Append(@, f.type.name) ELSE @]

\* v.SetInt(i) and the other setters, on the value a reader returned
SetRead(m, r, path, dec) ==
    IF r.err # ErrNil THEN Fail(m, r.d, r.err)
    ELSE [d |-> r.d,
          s |-> [m.s EXCEPT !.tree = SetAt(@, path, r.v),
                            !.from = Append(@, [path |-> path, dec |-> dec])]]

\* v.Set(reflect.Append(v, reflect.ValueOf(i))) for a []int64
AppendRead(m, r, path, dec) ==
    IF r.err # ErrNil THEN Fail(m, r.d, r.err)
    ELSE [d |-> r.d,
          s |-> [m.s EXCEPT !.tree = SetAt(@, path, Append(At(@, path), r.v)),
                            !.from = Append(@, [path |-> path, dec |-> dec])]]

\* if v.IsNil() { v.Set(reflect.New(e)) }
allocIfNil(m, path, e) ==
    IF Len(At(m.s.tree, path)) = 0
    THEN [m EXCEPT !.s.tree = SetAt(@, path, <<Zero(e)>>)]
    ELSE m

\* it := reflect.New(e.Elem()); v.Set(reflect.Append(v, it))
appendNew(m, path, e) ==
    [m EXCEPT !.s.tree = SetAt(@, path, Append(At(@, path), <<Zero(e)>>))]

IntKinds == {"int", "int8", "int16", "int32", "int64"}
UintKinds == {"uint", "uint8", "uint16", "uint32", "uint64", "uintptr"}

\* fieldInfo.decode: the switch on v.Kind()
RECURSIVE decode(_, _, _, _)
decode(m, path, t, dec) ==
    CASE t.kind = "time" ->
            Then(ReadTime(m.d, dec), LAMBDA r : SetRead(m, r, path, dec))
      [] t.kind = "struct" -> Push(m, Frame("UnmarshalEBML", dec, path, t, <<>>))
      [] t.kind = "ptr" ->
            IF t.elem.kind \notin {"struct", "time"} THEN Fail(m, m.d, ErrUnsupported)
            ELSE Then(allocIfNil(m, path, t.elem),
                      LAMBDA m1 : decode(m1, path \o <<1>>, t.elem, dec))
      [] t.kind = "slice" ->
            IF t.elem.kind = "uint8"
            THEN Then(ReadBytes(m.d, dec), LAMBDA r : SetRead(m, r, path, dec))
            ELSE IF t.elem.kind = "int64"
            THEN Then(ReadInt(m.d, dec), LAMBDA r : AppendRead(m, r, path, dec))
            ELSE IF t.elem.kind # "ptr" THEN Fail(m, m.d, ErrUnsupported)
            ELSE Then(appendNew(m, path, t.elem.elem),
                      LAMBDA m1 : decode(m1, path \o <<Len(At(m.s.tree, path)) + 1, 1>>,
                                         t.elem.elem, dec))
      [] t.kind \in IntKinds \cup UintKinds ->
            Then(ReadInt(m.d, dec), LAMBDA r : SetRead(m, r, path, dec))
      [] t.kind = "bool" ->
            Then(ReadBool(m.d, dec), LAMBDA r : SetRead(m, r, path, dec))
      [] t.kind = "float" ->
            Then(ReadFloat(m.d, dec), LAMBDA r : SetRead(m, r, path, dec))
      [] t.kind = "string" ->
            Then(ReadString(m.d, dec), LAMBDA r : SetRead(m, r, path, dec))
      [] OTHER -> Fail(m, m.d, ErrUnsupported)

\* elem.Skip() on an element no field takes
skipElem(m, r) ==
    IF r.err # ErrNil THEN Fail(m, r.d, r.err) ELSE [m EXCEPT !.d = r.d]

\* fieldInfo.Decode: down the id path when the tag has one
fieldDecode(m, path, field, elem) ==
    IF field.seq # <<>>
    THEN Push(m, Frame("decodeSeq", elem, path, field.type, field.seq))
    ELSE decode(m, path, field.type, elem)

\* UnmarshalEBML that, instead of skipping an element no field takes, goes
\* into it as into a container of the same struct
unmarshalElemDescend(m, f, id, elem) ==
    IF newStructInfo(f.type.name, id) # 0
    THEN fieldDecode(m, f.path \o <<newStructInfo(f.type.name, id)>>,
                     StructFields(f.type.name)[newStructInfo(f.type.name, id)], elem)
    ELSE Push(m, Frame("UnmarshalEBML", elem, f.path, f.type, <<>>))

\* the body of the loop of typeCodec.UnmarshalEBML for element (id, elem)
unmarshalElem(m, f, id, elem) ==
    IF newStructInfo(f.type.name, id) # 0
    THEN fieldDecode(m, f.path \o <<newStructInfo(f.type.name, id)>>,
                     StructFields(f.type.name)[newStructInfo(f.type.name, id)], elem)
    ELSE Then(Skip(m.d, elem), LAMBDA r : skipElem(m, r))

\* decodeSeq without its test id == seq[0]: every child is taken for the
\* next id of the path
decodeSeqAnyId(m, f, id, elem) ==
    IF Len(f.seq) = 1
    THEN decode(m, f.path, f.type, elem)
    ELSE Push(m, Frame("decodeSeq", elem, f.path, f.type, Tail(f.seq)))

\* the body of the loop of fieldInfo.decodeSeq for element (id, elem)
decodeSeqElem(m, f, id, elem) ==
    IF id = f.seq[1]
    THEN IF Len(f.seq) = 1
         THEN decode(m, f.path, f.type, elem)
         ELSE Push(m, Frame("decodeSeq", elem, f.path, f.type, Tail(f.seq)))
    ELSE Then(Skip(m.d, elem), LAMBDA r : skipElem(m, r))

\* the loop ends on io.EOF: the frame returns nil to its caller, and Decode
\* returns nil when it was the outermost
loopEnd(m, f, d) ==
    [d |-> d,
     s |-> [m.s EXCEPT !.stack = SubSeq(@, 1, Len(@) - 1),
                       !.pc = IF Len(m.s.stack) = 1 THEN "done" ELSE "run",
                       !.stop = Append(@, [dec |-> f.dec, len |-> d.cur[f.dec].len])]]

\* a loop that, on an empty element, goes on from the Decoder as it was
\* before Next read the header
iterateRetry(m, f, r) ==
    IF r.err = ErrEOF THEN loopEnd(m, f, r.d)
    ELSE IF r.err # ErrNil THEN Fail(m, r.d, r.err)
    ELSE IF r.child = NilElem THEN m
    ELSE IF f.fn = "UnmarshalEBML"
    THEN Then([m EXCEPT !.d = r.d], LAMBDA m1 : unmarshalElem(m1, f, r.id, r.child))
    ELSE Then([m EXCEPT !.d = r.d], LAMBDA m1 : decodeSeqElem(m1, f, r.id, r.child))

\* one iteration of the loop of the innermost frame f: dec.Next() and what
\* the loop does with what it returned
iterate(m, f, r) ==
    IF r.err = ErrEOF THEN loopEnd(m, f, r.d)
    ELSE IF r.err # ErrNil THEN Fail(m, r.d, r.err)
    ELSE IF r.child = NilElem THEN [m EXCEPT !.d = r.d]
    ELSE IF f.fn = "UnmarshalEBML"
    THEN Then([m EXCEPT !.d = r.d], LAMBDA m1 : unmarshalElem(m1, f, r.id, r.child))
    ELSE Then([m EXCEPT !.d = r.d], LAMBDA m1 : decodeSeqElem(m1, f, r.id, r.child))

Top(s) == s.stack[Len(s.stack)]

Iteration(k) ==
    Then(Next(run[k], Top(dstate[k]).dec),
         LAMBDA r : iterate([d |-> run[k], s |-> dstate[k]], Top(dstate[k]), r))

\* Decoder.Decode(v) with v a *Doc: the implicit skip, then UnmarshalEBML
Decode(k) ==
    LET m == [d |-> run[k], s |-> dstate[k]]
        s0 == skip(run[k], 1)
    IN IF s0.err # ErrNil THEN Fail(m, s0.d, s0.err)
       ELSE [d |-> s0.d,
             s |-> [dstate[k] EXCEPT
                      !.pc = "run",
                      !.stack = <<Frame("UnmarshalEBML", 1, <<>>, TStruct("Doc"), <<>>)>>,
                      !.built = Append(@, "Doc")]]

\* Decode is called on the three decoders
DecodeBegin ==
    /\ \A k \in Kinds : dstate[k].pc = "idle"
    /\ run' = [k \in Kinds |-> Decode(k).d]
    /\ dstate' = [k \in Kinds |-> Decode(k).s]
    /\ UNCHANGED <<stream, proc>>

\* every Decode call still running makes one iteration of its innermost loop
DecodeIter ==
    /\ {k \in Kinds : dstate[k].pc = "run"} # {}
    /\ \E it \in {[k \in Kinds |-> IF dstate[k].pc = "run" THEN Iteration(k)
                                   ELSE [d |-> run[k], s |-> dstate[k]]]} :
          /\ run' = [k \in Kinds |-> it[k].d]
          /\ dstate' = [k \in Kinds |-> it[k].s]
    /\ UNCHANGED <<stream, proc>>

\* var prefix int, which UnmarshalEBML increments on entry and decrements in
\* a deferred call.  One Decode call alone leaves it at the number of its
\* UnmarshalEBML frames, and nothing reads it: the specifications of a single
\* call leave proc alone.  pend[k] are the updates goroutine k has still to
\* make before its next statement, reg[k] the value it has loaded for the
\* update under way.
NoProc ==
    [prefix |-> 0, pend |-> [k \in Kinds |-> <<>>], reg |-> [k \in Kinds |-> <<>>]]

\* ------------------------------------------------- calls made by a caller
Live(k, c) == c \in 1..Len(run[k].cur) /\ ~run[k].crashed

\* a call on cursor c is made on every run that has that cursor
Callable(c) == {k \in Kinds : Live(k, c)} # {}

Cursors == UNION {1..Len(run[k].cur) : k \in Kinds}

CallNext(c) ==
    /\ Callable(c)
    /\ run' = [k \in Kinds |-> IF Live(k, c) THEN Next(run[k], c).d ELSE run[k]]
    /\ UNCHANGED <<stream, dstate, proc>>

CallRead(c, m) ==
    /\ Callable(c)
    /\ run' = [k \in Kinds |-> IF Live(k, c) THEN Read(run[k], c, m).d ELSE run[k]]
    /\ UNCHANGED <<stream, dstate, proc>>

CallSkip(c) ==
    /\ Callable(c)
    /\ run' = [k \in Kinds |-> IF Live(k, c) THEN Skip(run[k], c).d ELSE run[k]]
    /\ UNCHANGED <<stream, dstate, proc>>

CallSize(c) ==
    /\ Callable(c)
    /\ run' = [k \in Kinds |-> IF Live(k, c) THEN Size(run[k], c).d ELSE run[k]]
    /\ UNCHANGED <<stream, dstate, proc>>

CallReadInt(c) ==
    /\ Callable(c)
    /\ run' = [k \in Kinds |-> IF Live(k, c) THEN ReadInt(run[k], c).d ELSE run[k]]
    /\ UNCHANGED <<stream, dstate, proc>>

CallReadFloat(c) ==
    /\ Callable(c)
    /\ run' = [k \in Kinds |-> IF Live(k, c) THEN ReadFloat(run[k], c).d ELSE run[k]]
    /\ UNCHANGED <<stream, dstate, proc>>

CallReadBytes(c) ==
    /\ Callable(c)
    /\ run' = [k \in Kinds |-> IF Live(k, c) THEN ReadBytes(run[k], c).d ELSE run[k]]
    /\ UNCHANGED <<stream, dstate, proc>>

\* ------------------------------------------------------------- the inputs
\* an element with a one-byte id and a one-byte size
Elem(id, payload) == <<id, 128 + Len(payload)>> \o payload

Prefixes(b) == {SubSeq(b, 1, n) : n \in 0..Len(b)}

\* a wrapper 0x80 holding an item, an element of another id, an empty item
\* and a second item
Wrapped ==
    Elem(128, Elem(129, Elem(129, <<1>>)) \o Elem(130, <<9>>) \o Elem(129, <<>>)
              \o Elem(129, Elem(129, <<2>>)))

\* elements of ids no field takes, 0x83 at the top and 0x80 inside a Head,
\* among elements that are decoded
Skippy ==
    Elem(131, <<7, 7>>) \o Elem(129, Elem(128, <<7>>) \o Elem(129, <<1>>))
    \o Elem(130, <<5>>)

\* longer streams than the exhaustive part reaches, and their truncations:
\* a Head given twice, a Head declaring ten bytes of which five follow, and a
\* Head of two bytes holding the header of a two-byte child
Scenarios ==
    UNION {Prefixes(b) : b \in {
        Elem(129, Elem(129, <<1>>)) \o Elem(129, Elem(130, <<2>>)),
        <<129, 138>> \o Elem(129, <<1>>) \o <<128, 128>>,
        <<129, 130, 129, 130, 7, 7>> \o Elem(130, <<3>>) }}

\* streams handed to Decode only, and their truncations
DecodeScenarios == UNION {Prefixes(b) : b \in {Wrapped, Skippy}}

Streams == SeqsUpTo(Alphabet, MaxLen) \cup Scenarios

Init ==
    /\ stream \in Streams
    /\ run = [k \in Kinds |-> NewDecoder(k)]
    /\ dstate = [k \in Kinds |-> NoDecode]
    /\ proc = NoProc

InitDecode ==
    /\ stream \in Streams \cup DecodeScenarios
    /\ run = [k \in Kinds |-> NewDecoder(k)]
    /\ dstate = [k \in Kinds |-> NoDecode]
    /\ proc = NoProc

Step ==
    \/ \E c \in Cursors : CallNext(c)
    \/ \E c \in Cursors, m \in 0..MaxRead : CallRead(c, m)
    \/ \E c \in Cursors : CallSkip(c)
    \/ \E c \in Cursors : CallSize(c)
    \/ \E c \in Cursors : CallReadInt(c)
    \/ \E c \in Cursors : CallReadFloat(c)
    \/ \E c \in Cursors : CallReadBytes(c)

\* a caller driving the Decoders call by call
Spec == Init /\ [][Step]_vars

StepDecode == DecodeBegin \/ DecodeIter

\* a caller handing the stream to Decode
SpecDecode == InitDecode /\ [][StepDecode]_vars

\* =================================================================== claims
LiveCursors(k) == IF run[k].crashed THEN {} ELSE 1..Len(run[k].cur)
Bounded(d, c) == d.cur[c].size > 0

\* the Decoders Next has returned from Decoder c
Children(d, c) == {j \in 1..Len(d.cur) : d.cur[j].up = c}

\* the Decoder c and those above it
RECURSIVE Above(_, _)
Above(d, c) == IF c = 0 THEN {} ELSE {c} \cup Above(d, d.cur[c].up)

\* the child last returned by c, its child last returned, and so on
RECURSIVE OpenBelow(_, _)
OpenBelow(d, c) ==
    IF d.cur[c].elem = NilElem THEN {}
    ELSE {d.cur[c].elem} \cup OpenBelow(d, d.cur[c].elem)

\* stream bytes consumed or skipped through Decoder c and the Decoders opened
\* beneath it: what c has counted off, less what its children were handed
\* and have not used
RECURSIVE Consumed(_, _), Unused(_, _)
Consumed(d, c) == d.cur[c].size - d.cur[c].len - Unused(d, Children(d, c))
Unused(d, S) ==
    IF S = {} THEN 0
    ELSE LET j == CHOOSE y \in S : TRUE
         IN d.cur[j].size - Consumed(d, j) + Unused(d, S \ {j})

\* C1: Next on a size-bounded cursor returns a format error and opens no
\* child whenever the declared size just decoded exceeds the remaining count
\* left after the header; so no child is opened whose size exceeds its
\* parent's remaining.
C1_NextRejectsOversize ==
    \A k \in Kinds : \A c \in LiveCursors(k) :
        Bounded(run[k], c) =>
            LET r == Next(run[k], c)
            IN (r.hdr /\ r.hsize > r.hlen) => (r.err = ErrFormat /\ r.child = NilElem)

\* C2: after any sequence of calls every cursor has 0 <= remaining <=
\* totalSize.  Stated for the cursors that have a size: the root over a
\* source of unknown size (size 0) has no bound to keep.
C2_RemainingInRange ==
    \A k \in Kinds : \A c \in 1..Len(run[k].cur) :
        Bounded(run[k], c) => (0 <= run[k].cur[c].len /\ run[k].cur[c].len <= run[k].cur[c].size)

\* C3: the bytes consumed through a cursor returned by Next, with all that
\* the cursors opened beneath it consumed, never exceed its declared size.
C3_ScopedToDeclaredSize ==
    \A k \in Kinds : \A c \in 2..Len(run[k].cur) :
        Consumed(run[k], c) <= run[k].cur[c].size

\* C4: when a cursor has decoded its next child header, or has read from its
\* own payload, the child it returned before and that child's open
\* descendants are fully consumed: their remaining is 0.
C4_SingleActiveChild ==
    \A k \in Kinds : \A c \in LiveCursors(k) :
        /\ LET r == Next(run[k], c)
           IN r.hdr => \A j \in OpenBelow(run[k], c) : r.d.cur[j].len = 0
        /\ \A m \in 1..MaxRead :
             LET r == Read(run[k], c, m)
             IN r.n > 0 => \A j \in OpenBelow(run[k], c) : r.d.cur[j].len = 0

\* an element was opened whose declared size reaches past the end of the
\* stream
Truncated(d) == \E c \in 2..Len(d.cur) : d.cur[c].at + d.cur[c].size > StreamLen

\* C5: truncation is always an error: Decode never returns success for a
\* stream that ends before the declared size of an opened element.
C5_TruncationIsError ==
    \A k \in Kinds :
        (dstate[k].pc = "done" /\ Truncated(run[k])) => dstate[k].err # ErrNil

\* C6: the loop of a container stops normally only when the container's
\* remaining is 0.
C6_LoopStopsOnlyWhenEmpty ==
    \A k \in Kinds : \A i \in 1..Len(dstate[k].stop) :
        Bounded(run[k], dstate[k].stop[i].dec) => dstate[k].stop[i].len = 0

\* C7: Skip always leaves remaining = 0, on the seek path and on the discard
\* path, for seekable and forward-only sources given the same bytes.
C7_SkipLeavesZero ==
    \A k \in Kinds : \A c \in LiveCursors(k) :
        Bounded(run[k], c) => Skip(run[k], c).d.cur[c].len = 0

\* what a caller sees of a call's result
SeenNext(r) == <<r.err, IF r.hdr THEN <<r.id, r.hsize>> ELSE <<>>, r.child # NilElem>>
SeenRead(r) == <<r.err, r.n, r.b>>
SeenVal(r) == <<r.err, r.v>>
SeenSkip(r) == <<r.err, r.d.pos>>

\* C8: seek-skip and discard-skip differ in nothing a caller can see: on the
\* same bytes and after the same calls, every call returns the same on a
\* seekable and on a forward-only source, and Skip leaves the same position.
C8_SeekDiscardEquivalent ==
    \A c \in LiveCursors("seeker") \cap LiveCursors("reader") :
        /\ SeenNext(Next(run["seeker"], c)) = SeenNext(Next(run["reader"], c))
        /\ \A m \in 0..MaxRead :
             SeenRead(Read(run["seeker"], c, m)) = SeenRead(Read(run["reader"], c, m))
        /\ SeenVal(ReadInt(run["seeker"], c)) = SeenVal(ReadInt(run["reader"], c))
        /\ SeenVal(ReadFloat(run["seeker"], c)) = SeenVal(ReadFloat(run["reader"], c))
        /\ SeenVal(ReadBytes(run["seeker"], c)) = SeenVal(ReadBytes(run["reader"], c))
        /\ SeenSkip(Skip(run["seeker"], c)) = SeenSkip(Skip(run["reader"], c))

\* C9: Read(b) on a size-bounded cursor fails with a stream-exhaustion error
\* whenever len(b) exceeds the remaining count, and remaining goes down by
\* exactly the number of bytes consumed and returned.
C9_ReadFailsWhenShort ==
    \A k \in Kinds : \A c \in LiveCursors(k) : \A m \in 0..MaxRead :
        Bounded(run[k], c) =>
            LET s == skip(run[k], c)
                r == Read(run[k], c, m)
            IN r.err # ErrPanic =>
                 /\ m > s.d.cur[c].len => r.err = ErrEOF
                 /\ r.d.cur[c].len = s.d.cur[c].len - r.n
                 /\ r.d.pos = s.d.pos + r.n
                 /\ Len(r.b) = r.n

\* the Decoder the value now at path was read from: the last entry of the
\* log for that path
Source(s, path) ==
    LET I == {i \in 1..Len(s.from) : s.from[i].path = path}
    IN s.from[CHOOSE i \in I : \A j \in I : j <= i].dec

\* the element of the root opened last among those with this id
LastWithId(d, id) ==
    LET J == {j \in Children(d, 1) : d.cur[j].id = id}
    IN CHOOSE j \in J : \A i \in J : i <= j

\* C10: when sibling elements share an id mapped to a non-repeated field, the
\* final value holds only what the last of them decoded to: after Decode of
\* a complete stream, every value left in the field, scalar or inside a
\* nested struct, was read from the last element with that id.
C10_LastOccurrenceWins ==
    \A k \in Kinds :
        (dstate[k].pc = "done" /\ dstate[k].err = ErrNil /\ ~Truncated(run[k])) =>
            \A i \in 1..Len(dstate[k].from) :
                LET path == dstate[k].from[i].path
                    field == StructFields("Doc")[path[1]]
                IN field.type.kind # "slice" =>
                     LastWithId(run[k], field.id) \in Above(run[k], Source(dstate[k], path))

\* ------------------------------------------------- the stream read by hand
\* The elements of b, which starts at stream offset off, when every id and
\* size is a one-byte vint and every payload is there; ok tells whether b is
\* such a run of elements.
RECURSIVE RefElems(_, _)
RefElems(b, off) ==
    IF b = <<>> THEN [ok |-> TRUE, elems |-> <<>>]
    ELSE IF Len(b) < 2 THEN [ok |-> FALSE, elems |-> <<>>]
    ELSE IF b[1] < 128 \/ b[2] < 128 \/ Len(b) < b[2] - 126
    THEN [ok |-> FALSE, elems |-> <<>>]
    ELSE LET n == b[2] - 128
             r == RefElems(SubSeq(b, 3 + n, Len(b)), off + 2 + n)
         IN [ok |-> r.ok,
             elems |-> <<[id |-> b[1], at |-> off + 2, payload |-> SubSeq(b, 3, 2 + n)]>>
                       \o r.elems]

RootElems == RefElems(stream, 0)

\* the children of the elements es, in order
RECURSIVE RefChildren(_)
RefChildren(es) ==
    IF es = <<>> THEN <<>>
    ELSE RefElems(Head(es).payload, Head(es).at).elems \o RefChildren(Tail(es))

\* the stream is a run of elements, and so is the payload of every element
\* Decode descends into: a Head, a wrapper, an item of a wrapper
WellFormedDoc ==
    LET heads == SelectSeq(RootElems.elems, LAMBDA e : e.id = 129)
        wraps == SelectSeq(RootElems.elems, LAMBDA e : e.id = 128)
        items == SelectSeq(RefChildren(wraps), LAMBDA e : e.id = 129)
    IN /\ RootElems.ok
       /\ \A i \in 1..Len(heads) : RefElems(heads[i].payload, 0).ok
       /\ \A i \in 1..Len(wraps) : RefElems(wraps[i].payload, 0).ok
       /\ \A i \in 1..Len(items) : RefElems(items[i].payload, 0).ok

\* the elements with the leaf id under the wrappers, in stream order
Leaves ==
    SelectSeq(RefChildren(SelectSeq(RootElems.elems, LAMBDA e : e.id = 128)),
              LAMBDA e : e.id = 129)

\* the Hdr the elements es hold: a later element of an id replaces an
\* earlier one, an empty element sets nothing
RECURSIVE RefHdr(_, _)
RefHdr(h, es) ==
    IF es = <<>> THEN h
    ELSE LET e == Head(es)
             i == IF e.id = 129 THEN 1 ELSE IF e.id = 130 THEN 2 ELSE 0
         IN RefHdr(IF i = 0 \/ e.payload = <<>> THEN h
                   ELSE [h EXCEPT ![i] = ShiftIn(Int64Zero, e.payload)],
                   Tail(es))

\* one item, a pointer to the Hdr it holds, for each of the leaves ls
RefItems(ls) ==
    [i \in 1..Len(ls) |->
        <<RefHdr(Zero(TStruct("Hdr")), RefElems(ls[i].payload, 0).elems)>>]

Returned(k) == dstate[k].pc = "done" /\ dstate[k].err = ErrNil

\* C11 as the spec states it: the field with the id path 80>81 holds one
\* item for each leaf element found under a wrapper, in stream order.
C11_OneItemPerLeaf ==
    \A k \in Kinds :
        (Returned(k) /\ WellFormedDoc) => dstate[k].tree[3] = RefItems(Leaves)

\* C11: after Decode of a well-formed stream, the field with the id path
\* 80>81 holds exactly one item for each leaf element of non-zero size found
\* under a wrapper 0x80, in stream order and with the leaf's content; the
\* wrappers are no part of the value; children of a wrapper with another id
\* are skipped, and an empty leaf is passed over without an item.
C11_OneItemPerNonEmptyLeaf ==
    \A k \in Kinds :
        (Returned(k) /\ WellFormedDoc) =>
            dstate[k].tree[3] = RefItems(SelectSeq(Leaves, LAMBDA e : e.payload # <<>>))

\* a wrapper with two items, an element of another id and an empty leaf has
\* been decoded
C11_Witness ==
    /\ stream = Wrapped
    /\ \A k \in Kinds : Returned(k) /\ Len(dstate[k].tree[3]) = 2
    /\ dstate["reader"].tree[3][1][1][1] # dstate["reader"].tree[3][2][1][1]

\* ------------------------------------------------ the same decode, twice
\* the elements Decode skips without decoding them: those of an id no field
\* of the struct at hand takes, and the children of a wrapper that do not
\* continue the id path
Skipped ==
    LET root == RootElems.elems
        inHead == RefChildren(SelectSeq(root, LAMBDA e : e.id = 129))
        inWrap == RefChildren(SelectSeq(root, LAMBDA e : e.id = 128))
        inLeaf == RefChildren(SelectSeq(inWrap, LAMBDA e : e.id = 129))
    IN SelectSeq(root, LAMBDA e : e.id \notin {128, 129, 130})
       \o SelectSeq(inHead, LAMBDA e : e.id \notin {129, 130})
       \o SelectSeq(inWrap, LAMBDA e : e.id # 129)
       \o SelectSeq(inLeaf, LAMBDA e : e.id \notin {129, 130})

\* the stream positions of the payload bytes of the skipped elements
SkippedBytes ==
    IF WellFormedDoc
    THEN UNION {(Skipped[i].at + 1)..(Skipped[i].at + Len(Skipped[i].payload)) :
                    i \in 1..Len(Skipped)}
    ELSE {}

\* byte values put in place of skipped payload: a byte that is no vint lead,
\* a byte that reads as an id or as the size 1, and a plain value
TwinBytes == {0, 7, 129}

\* the streams that differ from this one in skipped payload bytes only
Twins ==
    {[i \in 1..Len(stream) |-> IF i \in SkippedBytes THEN f[i] ELSE stream[i]] :
        f \in [SkippedBytes -> TwinBytes]}

Outcome(s) == <<s.tree, s.err>>

\* Once Decode has returned, it is called anew on a stream that differs in
\* skipped payload only; what the first call returned is kept in prev.
Retwin ==
    /\ \A k \in Kinds : dstate[k].pc = "done"
    /\ \E t \in Twins \ {stream} : stream' = t
    /\ run' = [k \in Kinds |-> NewDecoder(k)]
    /\ dstate' = [k \in Kinds |-> [NoDecode EXCEPT !.prev = <<Outcome(dstate[k])>>]]
    /\ UNCHANGED proc

StepTwin == DecodeBegin \/ DecodeIter \/ Retwin

\* a caller decoding a stream and then its twins
SpecTwin == InitDecode /\ [][StepTwin]_vars

\* every element with an integer target holds one to eight bytes
WellTyped ==
    LET root == RootElems.elems
        hdrs == SelectSeq(root, LAMBDA e : e.id = 129) \o Leaves
        ints == SelectSeq(root, LAMBDA e : e.id = 130)
                \o SelectSeq(RefChildren(hdrs), LAMBDA e : e.id \in {129, 130})
    IN \A i \in 1..Len(ints) : Len(ints[i].payload) <= 8

\* C12: unknown ids are never errors and their payload is never inspected:
\* Decode of a well-formed stream returns nil whatever elements of unknown id
\* it holds, and Decode of a stream that differs only in the payload bytes of
\* skipped elements returns the same value tree and the same error.
C12_UnknownPayloadIgnored ==
    \A k \in Kinds :
        dstate[k].pc = "done" =>
            /\ (WellFormedDoc /\ WellTyped) => dstate[k].err = ErrNil
            /\ dstate[k].prev # <<>> => Outcome(dstate[k]) = dstate[k].prev[1]

\* a stream with skipped elements at the top and inside a Head has been
\* decoded after a twin of it, and values were decoded around the skipped ones
C12_Witness ==
    /\ \A k \in Kinds : Returned(k) /\ dstate[k].prev # <<>>
    /\ Cardinality(SkippedBytes) = 3
    /\ stream[3] = 129
    /\ dstate["reader"].tree[1] # <<>> /\ dstate["reader"].tree[2] # Int64Zero

\* ------------------------------------------------------------ termination
\* Decode runs on: a call that can make an iteration makes it
SpecDecodeFair == InitDecode /\ [][StepDecode]_vars /\ WF_vars(StepDecode)

Running(k) == dstate[k].pc = "run"

\* the Next call the innermost loop of run k makes in its next iteration
LoopNext(k) == Next(run[k], Top(dstate[k]).dec)

\* C13: forward progress is unconditional.  In the decoder loop, when a Next
\* call succeeds, every child the same Decoder returned before is consumed to
\* its end (no byte of it remains); every iteration whose Next succeeds
\* leaves the stream position strictly further on; and Decode returns on
\* every input stream, whatever elements are unrecognized or empty.
C13_ForwardProgress ==
    /\ [](\A k \in {i \in Kinds : Running(i)} : \A r \in {LoopNext(k)} :
            r.err = ErrNil =>
              /\ \A j \in Children(run[k], Top(dstate[k]).dec) : r.d.cur[j].len <= 0
              /\ iterate([d |-> run[k], s |-> dstate[k]], Top(dstate[k]), r).d.pos
                   > run[k].pos)
    /\ <>(\A k \in Kinds : dstate[k].pc = "done")

\* Decode has returned after a stream with an empty element and an element
\* it skipped, every byte of the stream consumed
C13_Witness ==
    /\ stream = Wrapped
    /\ \A k \in Kinds : dstate[k].pc = "done" /\ run[k].pos = StreamLen

\* ------------------------------------------------------------ the vint codec
\* lead bytes of every width 1..8, and 0x00, which has no marker bit
Leads == {0, 1, 2, 3, 4, 8, 16, 32, 64, 127, 128, 129, 200, 255}

\* what follows a lead byte
Tails == {<<0, 0, 0, 0, 0, 0, 129, 130>>, <<255, 1, 2, 3, 4, 5, 6, 129>>,
          <<0, 0, 0, 0, 0, 0, 0, 129>>}

VintStreams == {<<l>> \o SubSeq(t, 1, n) : l \in Leads, t \in Tails, n \in 0..8}

InitVint ==
    /\ stream \in VintStreams
    /\ run = [k \in Kinds |-> NewDecoder(k)]
    /\ dstate = [k \in Kinds |-> NoDecode]
    /\ proc = NoProc

StepVint == \E c \in Cursors : CallNext(c)

\* a caller reading headers, each an id vint and a size vint
SpecVint == InitVint /\ [][StepVint]_vars

\* the width a lead byte announces: the position of its highest set bit,
\* counted from the most significant bit
Width(b) == CHOOSE w \in 1..8 : 2 ^ (8 - w) <= b /\ b < 2 ^ (9 - w)

\* the value of the vint in the w bytes bs: all of them for an id, the marker
\* bit taken off for a size
RefVint(bs, off) ==
    ShiftIn(Int64Zero,
            <<Head(bs) - (IF off = 1 THEN 2 ^ (8 - Len(bs)) ELSE 0)>> \o Tail(bs))

\* the Decoder c of run k stands before a whole vint that it may read
VintAhead(k, c) ==
    LET d == run[k]
    IN /\ d.cur[c].elem = NilElem
       /\ Avail(d) >= 1
       /\ stream[d.pos + 1] # 0
       /\ Avail(d) >= Width(stream[d.pos + 1])
       /\ Bounded(d, c) => d.cur[c].len >= Width(stream[d.pos + 1])

\* C14: readVint reports a format error when the lead byte is 0x00; it does
\* not decode such a byte as a value and reads no byte after it.
C14_ZeroLeadIsFormatError ==
    \A k \in Kinds : \A c \in LiveCursors(k) : \A off \in {0, 1} :
        LET d == run[k]
            r == readVint(d, c, off)
        IN (/\ d.cur[c].elem = NilElem
            /\ Avail(d) >= 1 /\ stream[d.pos + 1] = 0
            /\ Bounded(d, c) => d.cur[c].len >= 1)
           => (r.err = ErrFormat /\ r.d.pos = d.pos + 1)

\* C15: for a vint whose lead byte has its highest set bit at position n,
\* readVint consumes exactly n bytes and returns, for a size, the big-endian
\* value of the n bytes with the marker bit cleared and, for an id, the
\* big-endian value of all n bytes; a lead byte 0x80..0xFF has width 1, with
\* size = byte - 0x80 and id = byte.
C15_VintWidthAndValue ==
    \A k \in Kinds : \A c \in LiveCursors(k) : \A off \in {0, 1} :
        VintAhead(k, c) =>
            LET d == run[k]
                w == Width(stream[d.pos + 1])
                r == readVint(d, c, off)
            IN /\ r.err = ErrNil
               /\ r.d.pos = d.pos + w
               /\ r.d.cur[c].len = d.cur[c].len - w
               /\ r.v = RefVint(SubSeq(stream, d.pos + 1, d.pos + w), off)
               /\ w = 1 => Int64(r.v) = stream[d.pos + 1] - (IF off = 1 THEN 128 ELSE 0)

\* Next has read an id of eight bytes and a size of one byte and returned
\* the element they announce
C15_Witness ==
    /\ stream = <<1, 0, 0, 0, 0, 0, 0, 129, 130>>
    /\ \A k \in Kinds : Len(run[k].cur) = 2 /\ run[k].cur[2].at = 9 /\ run[k].cur[2].size = 2

\* ---------------------------------------------------------------- Size
\* C16: Size returns the total declared size of its Decoder, whatever has
\* been read from it and whatever children Next has returned from it, after
\* the implicit skip of the child left open.
C16_SizeIsDeclaredSize ==
    \A k \in Kinds : \A c \in LiveCursors(k) :
        LET d == run[k]
            r == Size(d, c)
        IN /\ Bounded(d, c) => r.v = d.cur[c].size
           /\ skip(d, c).err = ErrNil =>
                \A j \in Children(r.d, c) : r.d.cur[j].len <= 0

\* ------------------------------------------------------- the schema shapes
\* C17: the shape of a struct type is built at most once: the first
\* UnmarshalEBML that meets the type builds it and stores it in typeMap, and
\* every later one, a repeated or nested occurrence in the same stream
\* included, takes it from there.
C17_ShapeBuiltOnce ==
    \A k \in Kinds :
        LET b == dstate[k].built
        IN /\ \A i, j \in 1..Len(b) : b[i] = b[j] => i = j
           /\ \A i \in 1..Len(b) : b[i] \in typeMap

\* ------------------------------------------------- Decode calls in parallel
\* the goroutines, each with a Decoder of its own on a source of its own
Goroutines == {"seeker", "reader"}

RaceStreams == Prefixes(Skippy)

InitRace ==
    /\ stream \in RaceStreams
    /\ run = [k \in Kinds |-> NewDecoder(k)]
    /\ dstate = [k \in Kinds |-> NoDecode]
    /\ proc = NoProc

\* the UnmarshalEBML calls on the stack
Depth(s) == Len(SelectSeq(s.stack, LAMBDA f : f.fn = "UnmarshalEBML"))

\* the updates of prefix between two statements of a goroutine: prefix++ of
\* the UnmarshalEBML entered, or the deferred prefix-- of each one left
Updates(s, t) ==
    IF Depth(t) > Depth(s) THEN <<"inc">>
    ELSE [i \in 1..(Depth(s) - Depth(t)) |-> "dec"]

\* goroutine k calls Decode
RaceBegin(k) ==
    /\ dstate[k].pc = "idle"
    /\ run' = [run EXCEPT ![k] = Decode(k).d]
    /\ dstate' = [dstate EXCEPT ![k] = Decode(k).s]
    /\ proc' = [proc EXCEPT !.pend[k] = Updates(dstate[k], Decode(k).s)]
    /\ UNCHANGED stream

\* prefix++ and prefix-- are a load of prefix ...
RaceLoad(k) ==
    /\ proc.pend[k] # <<>> /\ proc.reg[k] = <<>>
    /\ proc' = [proc EXCEPT !.reg[k] = <<proc.prefix>>]
    /\ UNCHANGED <<stream, run, dstate>>

\* ... and a store of the value loaded, one more or one less
RaceStore(k) ==
    /\ proc.reg[k] # <<>>
    /\ proc' = [proc EXCEPT
                  !.prefix = proc.reg[k][1] +
                             (IF Head(proc.pend[k]) = "inc" THEN 1 ELSE -1),
                  !.pend[k] = Tail(@),
                  !.reg[k] = <<>>]
    /\ UNCHANGED <<stream, run, dstate>>

\* goroutine k makes one iteration of its innermost loop
RaceIter(k) ==
    /\ dstate[k].pc = "run" /\ proc.pend[k] = <<>>
    /\ \E it \in {Iteration(k)} :
          /\ run' = [run EXCEPT ![k] = it.d]
          /\ dstate' = [dstate EXCEPT ![k] = it.s]
          /\ proc' = [proc EXCEPT !.pend[k] = Updates(dstate[k], it.s)]
    /\ UNCHANGED stream

StepRace ==
    \E k \in Goroutines : RaceBegin(k) \/ RaceLoad(k) \/ RaceStore(k) \/ RaceIter(k)

\* two Decode calls running at once, their statements interleaved
SpecRace == InitRace /\ [][StepRace]_vars

\* the Decode call of goroutine k has returned
RaceReturned(k) == dstate[k].pc = "done" /\ proc.pend[k] = <<>>

\* C18: Decode calls running at once share no mutable state but the shape
\* cache, and access to what they share is serialized: no goroutine finds a
\* process-wide variable changed between its read and its write of it, and
\* once both calls have returned every process-wide variable has the value
\* that one call after the other leaves.
C18_NoUnsynchronizedUpdate ==
    /\ \A k \in Goroutines : proc.reg[k] # <<>> => proc.reg[k][1] = proc.prefix
    /\ (\A k \in Goroutines : RaceReturned(k)) => proc.prefix = 0

\* ------------------------------------------------------- the value readers
\* payloads of zero to nine bytes, the first byte with its top bit set or not
Payloads ==
    {SubSeq(p, 1, n) : p \in {<<255, 254, 3, 4, 5, 6, 7, 8, 9>>,
                              <<1, 0, 0, 0, 0, 0, 0, 128, 2>>}, n \in 0..9}

\* one element of each payload, whole or cut short
ValueStreams == UNION {Prefixes(Elem(130, b)) : b \in Payloads}

\* an element whose three-byte size declares maxBufferSize bytes, and one
\* that declares one byte more
GuardStreams == {<<130, 48, 0, 0, 7>>, <<130, 48, 0, 1, 7>>}

InitValue ==
    /\ stream \in ValueStreams \cup GuardStreams
    /\ run = [k \in Kinds |-> NewDecoder(k)]
    /\ dstate = [k \in Kinds |-> NoDecode]
    /\ proc = NoProc

\* a caller driving the Decoders over an element that holds a value
SpecValue == InitValue /\ [][Step]_vars

Readers == {"ReadInt", "ReadFloat", "ReadBool", "ReadTime", "ReadString", "ReadBytes"}

ReadAs(name, d, c) ==
    CASE name = "ReadInt" -> ReadInt(d, c)
      [] name = "ReadFloat" -> ReadFloat(d, c)
      [] name = "ReadBool" -> ReadBool(d, c)
      [] name = "ReadTime" -> ReadTime(d, c)
      [] name = "ReadString" -> ReadString(d, c)
      [] name = "ReadBytes" -> ReadBytes(d, c)

\* C19: a primitive reader that returns without error has consumed all that
\* remained of its Decoder: the remaining count is 0 afterwards, the stream
\* stands exactly the former remaining count further, and a second reader on
\* the same Decoder gets no byte.
C19_ReaderConsumesAll ==
    \A k \in Kinds : \A c \in LiveCursors(k) : \A name \in Readers :
        LET s == skip(run[k], c)
            r == ReadAs(name, run[k], c)
        IN r.err = ErrNil =>
             /\ r.d.cur[c].len = 0
             /\ r.d.pos = s.d.pos + s.d.cur[c].len
             /\ \A again \in Readers : ReadAs(again, r.d, c).d.pos = r.d.pos

\* an element of eight bytes that Next returned has been consumed whole, no
\* byte of the stream being left
C19_Witness ==
    /\ stream = Elem(130, <<1, 0, 0, 0, 0, 0, 0, 128>>)
    /\ \A k \in Kinds :
          /\ Len(run[k].cur) = 2
          /\ run[k].cur[2].size = 8 /\ run[k].cur[2].len = 0
          /\ run[k].pos = 10

\* the unsigned number of one to eight bytes, as the eight bytes of a uint64
RefUint(b) == [i \in 1..8 |-> IF i <= 8 - Len(b) THEN 0 ELSE b[i - (8 - Len(b))]]

C21_BufferGuard ==
    \A k \in Kinds : \A c \in LiveCursors(k) : \A name \in {"ReadBytes", "ReadString"} :
        LET s == skip(run[k], c)
            n == s.d.cur[c].len
            r == ReadAs(name, run[k], c)
        IN s.err = ErrNil =>
             /\ n > maxBufferSize => r.err = ErrFormat /\ r.d = s.d
             /\ (0 <= n /\ n <= maxBufferSize) => r.err # ErrFormat
             /\ (0 <= n /\ n <= maxBufferSize /\ Avail(s.d) >= n) =>
                   /\ r.err = ErrNil
                   /\ r.v = SubSeq(stream, s.d.pos + 1, s.d.pos + n)
                   /\ r.d.pos = s.d.pos + n

\* Next has returned an element that declares one byte more than
\* maxBufferSize, none of it read
C21_Witness ==
    /\ stream = <<130, 48, 0, 1, 7>>
    /\ Len(run["reader"].cur) = 2
    /\ run["reader"].cur[2].len = maxBufferSize + 1
    /\ ReadBytes(run["reader"], 2).err = ErrFormat

\* --------------------------------------------------------- empty elements
\* the Decoder c of run k, its open child skipped, stands before the header
\* of an element of size zero: a one-byte id and the size byte 0x80
EmptyAhead(s, c) ==
    /\ s.err = ErrNil
    /\ Avail(s.d) >= 2
    /\ Bounded(s.d, c) => s.d.cur[c].len >= 2
    /\ stream[s.d.pos + 1] >= 128
    /\ stream[s.d.pos + 2] = 128

\* C22: an element of declared size zero is no error: Next returns its id,
\* no Decoder and no error and leaves dec.elem as it was, and the loops of
\* UnmarshalEBML and decodeSeq go on to the next sibling without assigning,
\* appending to or clearing a field, also when a field has that id.
C22_EmptyElementPassedOver ==
    \A k \in Kinds :
        /\ \A c \in LiveCursors(k) :
              LET s == skip(run[k], c)
                  r == Next(run[k], c)
              IN EmptyAhead(s, c) =>
                   /\ r.err = ErrNil /\ r.child = NilElem
                   /\ r.id = stream[s.d.pos + 1]
                   /\ r.d.pos = s.d.pos + 2
                   /\ r.d.cur[c].elem = run[k].cur[c].elem
                   /\ Len(r.d.cur) = Len(run[k].cur)
        /\ (Running(k) /\ EmptyAhead(skip(run[k], Top(dstate[k]).dec), Top(dstate[k]).dec)) =>
              \A it \in {Iteration(k)} :
                  /\ it.s.pc = "run" /\ it.s.err = ErrNil
                  /\ it.s.tree = dstate[k].tree
                  /\ it.s.from = dstate[k].from
                  /\ it.s.stack = dstate[k].stack

\* the loop of UnmarshalEBML has passed over an empty element of id 0x81,
\* the id of the field Head, and stands before its sibling; no field is set
C22_Witness ==
    /\ stream = <<129, 128, 130, 129>>
    /\ \A k \in Kinds :
          /\ dstate[k].pc = "run" /\ run[k].pos = 2
          /\ dstate[k].tree = Zero(TStruct("Doc"))
          /\ Len(dstate[k].stack) = 1

\* ---------------------------------------------------------- closed cursors
\* the Decoders as each operation on Decoder c leaves them
OpResults(d, c) ==
    {Next(d, c).d, Skip(d, c).d, ReadInt(d, c).d, ReadFloat(d, c).d,
     ReadBytes(d, c).d, ReadBool(d, c).d, ReadTime(d, c).d, ReadString(d, c).d}
    \cup {Read(d, c, m).d : m \in 0..MaxRead}

\* from d to r the remaining count of no Decoder has become larger
NeverGrows(d, r) == \A j \in 1..Len(d.cur) : r.cur[j].len <= d.cur[j].len

\* from d to r no byte was consumed and the source has not moved
StreamStays(d, r) == r.pos = d.pos /\ r.upos = d.upos

\* C23: a cursor never goes back from Closed to Open: under every operation
\* its remaining count never increases, and once a bounded cursor has a
\* remaining count of 0 no operation on it (Next, Read, Skip, the primitive
\* readers) consumes a byte of the stream or moves the stream position.
C23_ClosedStaysClosed ==
    \A k \in Kinds : \A c \in LiveCursors(k) : \A r \in OpResults(run[k], c) :
        /\ NeverGrows(run[k], r)
        /\ (Bounded(run[k], c) /\ run[k].cur[c].len = 0) => StreamStays(run[k], r)

\* C23 as it holds: the same for a cursor with nothing left unread in the
\* children still open beneath it, which an operation on it skips first
C23_ClosedStaysClosedOnceChildrenDone ==
    \A k \in Kinds : \A c \in LiveCursors(k) : \A r \in OpResults(run[k], c) :
        /\ NeverGrows(run[k], r)
        /\ (/\ Bounded(run[k], c) /\ run[k].cur[c].len = 0
            /\ \A j \in OpenBelow(run[k], c) : run[k].cur[j].len <= 0)
           => StreamStays(run[k], r)

\* the one-byte element Next returned has been read to its end, and a byte
\* of the stream follows it
C23_Witness ==
    /\ stream = <<129, 129, 64, 128>>
    /\ \A k \in Kinds :
          /\ Len(run[k].cur) = 2 /\ run[k].cur[2].len = 0 /\ run[k].pos = 3
          /\ run[k].cur[1].elem = 2

\* ------------------------------------------------------ errors in Decode
\* Next on Decoder c ended on the end of its container and on nothing else:
\* the open child skipped, no byte of a header read, and nothing left of a
\* bounded Decoder or of the stream of an unbounded one
CleanEnd(d, c, r) ==
    LET s == skip(d, c)
    IN /\ s.err = ErrNil /\ r.err = ErrEOF /\ r.d.pos = s.d.pos
       /\ IF Bounded(d, c) THEN s.d.cur[c].len = 0 ELSE Avail(s.d) = 0

\* C24: an error raised while an element is decoded aborts the whole Decode
\* call at once: Decode returns that error, decodes no later element and
\* assigns no field after it, and the fields assigned before keep their
\* values.
C24_ErrorAborts ==
    \A k \in {i \in Kinds : Running(i)} : \A r \in {LoopNext(k)} :
        \A it \in {iterate([d |-> run[k], s |-> dstate[k]], Top(dstate[k]), r)} :
            /\ (r.err # ErrNil /\ ~CleanEnd(run[k], Top(dstate[k]).dec, r)) =>
                  /\ it.s.pc = "done" /\ it.s.err = r.err
                  /\ it.s.tree = dstate[k].tree
            /\ it.s.err # ErrNil =>
                  /\ it.s.pc = "done" /\ it.s.stack = <<>>
                  /\ it.s.tree = dstate[k].tree

\* ------------------------------------------------------- what Next consumes
\* what is left unread in the children still open beneath Decoder c
RECURSIVE UnreadBelow(_, _)
UnreadBelow(d, c) ==
    IF d.cur[c].elem = NilElem THEN 0
    ELSE Max(d.cur[d.cur[c].elem].len, 0) + UnreadBelow(d, d.cur[c].elem)

\* the header that starts after p bytes of the stream, read by hand: the
\* bytes of its id, the bytes of its size, and the size it declares
HdrAt(p) ==
    LET wi == Width(stream[p + 1])
        ws == Width(stream[p + wi + 1])
    IN [len |-> wi + ws,
        size |-> Int64(RefVint(SubSeq(stream, p + wi + 1, p + wi + ws), 1))]

\* C25: a Next that succeeds consumes only what was left unread of the child
\* open before and the bytes of the new header, no byte of the payload of
\* the element it returns, and lowers the remaining count of its Decoder by
\* exactly the length of the header plus the declared size of the element.
C25_NextConsumesHeaderOnly ==
    \A k \in Kinds : \A c \in LiveCursors(k) :
        LET d == run[k]
            s == skip(d, c)
            r == Next(d, c)
            h == HdrAt(s.d.pos)
        IN r.err = ErrNil =>
             /\ s.d.pos = d.pos + UnreadBelow(d, c)
             /\ r.d.pos = s.d.pos + h.len
             /\ r.hsize = h.size
             /\ r.d.cur[c].len = d.cur[c].len - h.len - h.size
             /\ r.child # NilElem =>
                   /\ r.d.cur[r.child].at = r.d.pos
                   /\ r.d.cur[r.child].len = h.size
                   /\ r.d.cur[r.child].size = h.size

\* Next has returned the first element of the root and then the second,
\* with the three bytes of the first unread and passed over: the stream
\* stands at the payload of the second
C25_Witness ==
    /\ stream = Elem(129, Elem(129, <<1>>)) \o Elem(129, Elem(130, <<2>>))
    /\ \A k \in Kinds :
          /\ Len(run[k].cur) = 3 /\ run[k].pos = 7
          /\ run[k].cur[2].up = 1 /\ run[k].cur[3].up = 1
          /\ run[k].cur[3].at = 7 /\ run[k].cur[3].len = 3

\* ------------------------------------------------- the Decoders Next returns
\* C26: every Decoder Next returns is size-bounded: when it is returned its
\* id is not 0, its size and its remaining count are the declared size, which
\* is at least 1, and it has no open child; only the root Decoder made by
\* NewDecoder can be unbounded (size 0).
C26_ReturnedCursorBounded ==
    \A k \in Kinds :
        /\ \A c \in LiveCursors(k) :
              LET r == Next(run[k], c)
              IN (r.err = ErrNil /\ r.child # NilElem) =>
                   /\ r.child = Len(run[k].cur) + 1
                   /\ r.d.cur[r.child].id = r.id /\ r.id # 0
                   /\ r.d.cur[r.child].size = r.hsize /\ r.hsize >= 1
                   /\ r.d.cur[r.child].len = r.hsize
                   /\ r.d.cur[r.child].elem = NilElem
        /\ \A c \in 2..Len(run[k].cur) :
              run[k].cur[c].size >= 1 /\ run[k].cur[c].id # 0
        /\ run[k].cur[1].size = IF k = "file" THEN StreamLen ELSE 0

\* Next on the unbounded root has returned the element of id 0x81 that
\* declares 127 bytes
C26_Witness ==
    /\ stream = <<129, 255, 1>>
    /\ Len(run["reader"].cur) = 2
    /\ run["reader"].cur[1].size = 0
    /\ run["reader"].cur[2].id = 129
    /\ run["reader"].cur[2].size = 127 /\ run["reader"].cur[2].len = 127

\* ------------------------------------------------- a failing implicit skip
\* what each operation on Decoder c returns and leaves: its error and the
\* Decoders after it
OpOutcomes(d, c) ==
    {<<r.err, r.d>> : r \in {Next(d, c), ReadInt(d, c), ReadFloat(d, c), ReadBytes(d, c)}
                             \cup {Read(d, c, m) : m \in 0..MaxRead}}

\* C27: when the implicit skip of the open child fails, Next, Read, ReadInt,
\* ReadFloat and ReadBytes on the parent return that error, decode no header
\* and consume no byte beyond what the failed skip consumed; the remaining
\* count, the id and the open child of the parent are unchanged.
C27_SkipErrorReturned ==
    \A k \in Kinds : \A c \in LiveCursors(k) :
        run[k].cur[c].elem # NilElem =>
            \A x \in {Skip(run[k], run[k].cur[c].elem)} :
                x.err # ErrNil =>
                   /\ \A o \in OpOutcomes(run[k], c) : o = <<x.err, x.d>>
                   /\ ~Next(run[k], c).hdr
                   /\ x.d.cur[c] = run[k].cur[c]
                   /\ Len(x.d.cur) = Len(run[k].cur)

\* on a source that cannot seek, Next on the root has failed on the skip of
\* an element that declares ten bytes of which five follow
C27_Witness ==
    /\ stream = <<129, 138>> \o Elem(129, <<1>>) \o <<128, 128>>
    /\ Len(run["reader"].cur) = 2
    /\ run["reader"].cur[1].elem = 2
    /\ run["reader"].cur[2].len = 10
    /\ run["reader"].pos = StreamLen

====
